---- MODULE Spec2Model ----
(***************************************************************************)
(* Model of the run-agent orchestration pipeline of coreason_api           *)
(* (src/src/coreason_api/routers/runtime.py).  One request at a time is    *)
(* followed through FastAPI's body validation, the handler run_agent, the  *)
(* sending of the response and the background tasks that Starlette runs    *)
(* after the response.  The external ports (identity, policy, budget,      *)
(* audit, execution) are the environment: every call to a port draws its   *)
(* outcome (a return value or a raised exception) nondeterministically.    *)
(* The exceptions the ports raise are those of their own packages, never   *)
(* FastAPI's HTTPException.                                                *)
(*                                                                         *)
(* cost_estimate is a float in the code; it is modelled by an integer      *)
(* number of cost units, which keeps the order relation with 0 that the    *)
(* code's only test on it (ge=0.0) uses.                                   *)
(***************************************************************************)
EXTENDS Integers, Sequences, FiniteSets, TLC

VARIABLES
    pc,         \* position of the request in its handling
    request,    \* the inbound request: agent_id, authorization, RunRequest body
    user_id,    \* run_agent's local user_id (user_context.sub)
    result,     \* run_agent's local result (return value of execute_agent)
    exc,        \* text of the execution exception being handled (str(e))
    calls,      \* port calls made for this request, in order, with their outcome
    background, \* BackgroundTasks: the tasks added with add_task, in order
    response,   \* the HTTP response: status and body
    logs,       \* logger records emitted by the handler, in order
    x_trace_id, \* the X-Trace-ID header of the inbound request
    trace_id,   \* TraceIDMiddleware.dispatch's local trace_id
    mw,         \* position of TraceIDMiddleware.dispatch for this request
    response_headers, \* headers of the response, a dict
    tasks,      \* concurrent requests in TraceIDMiddleware.dispatch: position and locals
    context,    \* loguru's context variable: its value in each running task
    records,    \* log records emitted under concurrency, with their extra trace_id
    agent_name, \* publish_agent's local agent_name (agent_def.metadata.name)
    signature,  \* publish_agent's local signature (return value of anchor.seal)
    errors,     \* readiness_check's local errors, a dict
    backends,   \* condition of the secret store, identity provider and ledger
    lookups,    \* calls VaultAdapter.get_secret made to the manager, with their outcome
    sources,    \* what a construction of Settings reads: secret store and the other sources
    data,       \* VaultSettingsSource.__call__'s local data, a dict
    settings,   \* the Settings object that was constructed
    cache,      \* the cache of lru_cache around get_settings
    threads,    \* threads calling get_settings: position and returned object
    objects     \* Settings objects constructed so far

\* the variables of the tracing middleware
mwvars == <<x_trace_id, trace_id, mw, response_headers>>

\* the variables of one request to POST /v1/run/{agent_id}
runvars == <<pc, request, user_id, result, exc, calls, background, response, logs,
             mwvars>>

\* the variables of concurrent requests in the tracing middleware
tracevars == <<tasks, context, records>>

\* the locals of publish_agent and of readiness_check
publishvars == <<agent_name, signature>>
readyvars == <<errors, backends, lookups>>

\* the construction of Settings, and the cache of get_settings
configvars == <<sources, data, settings>>
cachevars == <<cache, threads, objects>>

\* what a request to POST /v1/run/{agent_id} leaves alone
other_endpoints == <<tracevars, publishvars, readyvars, configvars, cachevars>>

vars == <<runvars, other_endpoints>>

----------------------------------------------------------------------------
\* Bounds of the model

\* cost_estimate ranges over -MaxCost .. MaxCost cost units
MaxCost == 2

----------------------------------------------------------------------------
\* HTTP status codes used by the handlers

HTTP_200_OK == 200
HTTP_401_UNAUTHORIZED == 401
HTTP_402_PAYMENT_REQUIRED == 402
HTTP_403_FORBIDDEN == 403
HTTP_422_UNPROCESSABLE_ENTITY == 422
HTTP_500_INTERNAL_SERVER_ERROR == 500

----------------------------------------------------------------------------
\* Inputs

\* authorization: Optional[str] = None  -- the header is absent
NoHeader == "<absent>"

\* the subject each credential authenticates; a credential outside the
\* domain is one the identity provider rejects
Subject == [c \in {"Bearer alice", "Bearer bob"} |->
                IF c = "Bearer alice" THEN "alice" ELSE "bob"]

Authorizations == {NoHeader, "", "Basic junk"} \cup DOMAIN Subject

AgentIds == {"agent-1"}

InputData == {"in-1", "in-2"}

\* session_context: Optional[Dict]; a dict is a set of <<key, value>> pairs
\* with distinct keys, and none says that the field is None

SessionContexts ==
    { [none |-> TRUE,  dict |-> {}],
      [none |-> FALSE, dict |-> {}],
      [none |-> FALSE, dict |-> {<<"custom", "value">>}],
      [none |-> FALSE, dict |-> {<<"user_id", "admin">>, <<"custom", "value">>}] }

CostEstimates == (0 - MaxCost) .. MaxCost

\* texts of the exceptions the ports raise
ErrMsgs == {"E1", "E2"}

\* values the execution port returns
Results == {"out-1", "out-2"}

\* str(uuid.uuid4())
Uuids == {"uuid-1", "uuid-2"}

\* values of the inbound X-Trace-ID header: absent, empty, or an opaque token
TraceHeaders == {NoHeader, "", "trace-abc", "Not-A-Uuid"}

\* RunRequest plus the path parameter and the header of the request
Requests ==
    [agent_id : AgentIds, authorization : Authorizations, input_data : InputData,
     session_context : SessionContexts, cost_estimate : CostEstimates]

----------------------------------------------------------------------------
\* Outcomes of the port calls: [raised, kind, msg, ret]

Returned(v) == [raised |-> FALSE, kind |-> "", msg |-> "", ret |-> v]

Raised(kind, msg) == [raised |-> TRUE, kind |-> kind, msg |-> msg, ret |-> ""]

UserContext(sub) ==
    [sub |-> sub, email |-> sub \o "@example.com", project_context |-> "None",
     permissions |-> <<>>]

\* identity.validate_token(authorization): a user context for a credential
\* the provider accepts, an exception otherwise or when the provider fails
ValidateTokenOutcomes(authorization) ==
    {Raised("Exception", m) : m \in ErrMsgs}
    \cup (IF authorization \in DOMAIN Subject
          THEN {Returned(UserContext(Subject[authorization]))} ELSE {})

\* policy_guard.verify_access(agent_id, user_context)
VerifyAccessOutcomes ==
    {Returned(TRUE), Returned(FALSE)}
    \cup {Raised("ComplianceViolationError", m) : m \in ErrMsgs}
    \cup {Raised("Exception", m) : m \in ErrMsgs}

\* budget.check_quota(user_id, cost_estimate)
CheckQuotaOutcomes ==
    {Returned(TRUE), Returned(FALSE)} \cup {Raised("Exception", m) : m \in ErrMsgs}

\* auditor.log_event(event_type, payload)
LogEventOutcomes == {Returned("None")} \cup {Raised("Exception", m) : m \in ErrMsgs}

\* mcp.execute_agent(agent_id, input_data, context)
ExecuteAgentOutcomes ==
    {Returned(r) : r \in Results} \cup {Raised("Exception", m) : m \in ErrMsgs}

\* budget.record_transaction(user_id, amount, context)
RecordTransactionOutcomes ==
    {Returned("None")} \cup {Raised("Exception", m) : m \in ErrMsgs}

Call(op, args, out) == [op |-> op, args |-> args, out |-> out]

----------------------------------------------------------------------------
\* Responses

NoResponse == [status |-> 0, body |-> [detail |-> ""]]

\* raise HTTPException(status_code=..., detail=...)
HTTPException(status_code, detail) ==
    [status |-> status_code, body |-> [detail |-> detail]]

\* RunResponse(result=..., transaction_id=...)
RunResponse(res, transaction_id) ==
    [status |-> HTTP_200_OK,
     body |-> [result |-> res, transaction_id |-> transaction_id]]

\* what a step of the handler decides: go on at `next', or end with `resp'
Go(next) == [next |-> next, resp |-> NoResponse]

Fail(resp) == [next |-> "sent", resp |-> resp]

----------------------------------------------------------------------------
\* The decisions of the handler, step by step

\* a variant with gt=0.0 in place of ge=0.0
RequestValid_Gt(body) == body.cost_estimate > 0

\* cost_estimate: float = Field(default=1.0, ge=0.0)
RequestValid(body) == body.cost_estimate >= 0

\* FastAPI's answer to a body that fails validation
RequestValidationError ==
    [status |-> HTTP_422_UNPROCESSABLE_ENTITY,
     body |-> [detail |-> "greater_than_equal"]]

\* a variant that tests only `authorization is None'
MissingAuthorization_NoneOnly(authorization) == authorization = NoHeader

\* if not authorization:
MissingAuthorization(authorization) == authorization \in {NoHeader, ""}

MissingAuthorizationError ==
    HTTPException(HTTP_401_UNAUTHORIZED, "Missing Authorization header")

\* a variant that reports the exception's text to the caller
OnValidateToken_DetailLeaked(out) ==
    IF out.raised
    THEN Fail(HTTPException(HTTP_401_UNAUTHORIZED,
                            "Invalid authentication credentials: " \o out.msg))
    ELSE Go("policy")

\* try: user_context = await identity.validate_token(authorization)
\* except Exception: raise HTTPException(401, ...)
OnValidateToken(out) ==
    IF out.raised
    THEN Fail(HTTPException(HTTP_401_UNAUTHORIZED, "Invalid authentication credentials"))
    ELSE Go("policy")

\* a variant with the single handler `except Exception'
OnVerifyAccess_OneHandler(out) ==
    IF out.raised
    THEN Fail(HTTPException(HTTP_500_INTERNAL_SERVER_ERROR, "Policy check failed"))
    ELSE Go("budget")

\* try: policy_guard.verify_access(...)   (the return value is not read)
\* except ComplianceViolationError: 403;  except Exception: 500
OnVerifyAccess(out) ==
    CASE out.raised /\ out.kind = "ComplianceViolationError" ->
            Fail(HTTPException(HTTP_403_FORBIDDEN, "Policy violation: " \o out.msg))
      [] out.raised /\ out.kind # "ComplianceViolationError" ->
            Fail(HTTPException(HTTP_500_INTERNAL_SERVER_ERROR, "Policy check failed"))
      [] OTHER -> Go("budget")

\* a variant that does not test `allowed'
OnCheckQuota_DenyIgnored(out) ==
    IF out.raised
    THEN Fail(HTTPException(HTTP_500_INTERNAL_SERVER_ERROR, "Error checking budget"))
    ELSE Go("audit_start")

\* try: allowed = await budget.check_quota(...); if not allowed: raise 402
\* except Exception: re-raise the 402, anything else becomes 500
OnCheckQuota(out) ==
    CASE out.raised ->
            Fail(HTTPException(HTTP_500_INTERNAL_SERVER_ERROR, "Error checking budget"))
      [] ~out.raised /\ ~out.ret ->
            Fail(HTTPException(HTTP_402_PAYMENT_REQUIRED, "Insufficient quota"))
      [] OTHER -> Go("audit_start")

\* a variant that logs the failure of the start event and goes on
OnAuditStart_LogOnly(out) == Go("execute")

\* try: await auditor.log_event("EXECUTION_START", ...)
\* except Exception: raise HTTPException(500, "Audit logging failed")
OnAuditStart(out) ==
    IF out.raised
    THEN Fail(HTTPException(HTTP_500_INTERNAL_SERVER_ERROR, "Audit logging failed"))
    ELSE Go("execute")

\* a variant that calls the execution port again when it raised
OnExecuteAgent_Retry(out) == IF out.raised THEN Go("execute") ELSE Go("settle")

\* a variant that goes on to settlement whatever the execution port did
OnExecuteAgent_ErrorIgnored(out) == Go("settle")

\* try: result = await mcp.execute_agent(...)   except Exception as e: ...
OnExecuteAgent(out) == IF out.raised THEN Go("exec_failed") ELSE Go("settle")

\* an exception leaves the handler: no response of the handler's own
Unhandled == [next |-> "unhandled", resp |-> NoResponse]

\* a variant that reports the exception's text to the caller
GlobalExceptionHandler_DetailLeaked(exc_text) ==
    [status |-> HTTP_500_INTERNAL_SERVER_ERROR, body |-> [detail |-> exc_text]]

\* main.py: @app.exception_handler(Exception)
\* async def global_exception_handler(request, exc): return JSONResponse(500, ...)
GlobalExceptionHandler(exc_text) ==
    [status |-> HTTP_500_INTERNAL_SERVER_ERROR,
     body |-> [detail |-> "Internal Server Error"]]

\* in the except block: await auditor.log_event("EXECUTION_FAILED", ...) is not
\* guarded, so an exception of it leaves the handler and reaches the
\* application's exception handler; otherwise raise HTTPException(500, ...)
OnAuditFailed(out, e) ==
    IF out.raised
    THEN Unhandled
    ELSE Fail(HTTPException(HTTP_500_INTERNAL_SERVER_ERROR,
                            "Agent execution failed: " \o e))

\* a variant that treats the end event like the start event
OnAuditEnd_Fatal(out) ==
    IF out.raised
    THEN Fail(HTTPException(HTTP_500_INTERNAL_SERVER_ERROR, "Audit logging failed"))
    ELSE Go("respond")

\* try: await auditor.log_event("EXECUTION_END", ...)
\* except Exception: logger.error(...)   -- the request does not fail
OnAuditEnd(out) == Go("respond")

\* d[key] = value
SetItem(d, key, value) == {p \in d : p[1] # key} \cup {<<key, value>>}

\* a variant with ctx_data.setdefault("user_id", user_id)
SessionCtx_SetDefault(session_context, uid) ==
    LET d == IF session_context.none THEN {} ELSE session_context.dict IN
    IF \E p \in d : p[1] = "user_id" THEN d ELSE d \cup {<<"user_id", uid>>}

\* ctx_data = request.session_context or {};  ctx_data["user_id"] = user_id
SessionCtx(session_context, uid) ==
    SetItem(IF session_context.none THEN {} ELSE session_context.dict, "user_id", uid)

\* a variant that charges the default cost_estimate of RunRequest
SettlementTask_DefaultCost(uid, body, agent_id) ==
    [user_id |-> uid, amount |-> 1,
     context |-> {<<"agent_id", agent_id>>, <<"transaction_type", "agent_execution">>}]

\* the task run_agent adds with background_tasks.add_task(budget.record_transaction, ...)
SettlementTask(uid, body, agent_id) ==
    [user_id |-> uid, amount |-> body.cost_estimate,
     context |-> {<<"agent_id", agent_id>>, <<"transaction_type", "agent_execution">>}]

Log(level, text) == <<level, text>>

----------------------------------------------------------------------------
\* The state machine of one request

\* before the first request arrives no request is held
NoRequest ==
    [agent_id |-> "", authorization |-> NoHeader, input_data |-> "",
     session_context |-> [none |-> TRUE, dict |-> {}], cost_estimate |-> 0]

RunInit ==
    /\ pc = "idle"
    /\ request = NoRequest
    /\ user_id = ""
    /\ result = ""
    /\ exc = ""
    /\ calls = <<>>
    /\ background = <<>>
    /\ response = NoResponse
    /\ logs = <<>>
    /\ x_trace_id = NoHeader
    /\ trace_id = ""
    /\ mw = "idle"
    /\ response_headers = {}

\* no concurrent request is in the middleware
TraceAtRest == tasks = <<>> /\ context = <<>> /\ records = {}

\* publish_agent and readiness_check are not running
PublishAtRest == agent_name = "" /\ signature = ""
ReadyAtRest == errors = {} /\ backends = <<>> /\ lookups = <<>>

\* no Settings is being constructed, and get_settings was not called
ConfigAtRest == sources = <<>> /\ data = {} /\ settings = <<>>
CacheAtRest == cache = {} /\ threads = <<>> /\ objects = {}

\* the endpoints and the configuration that a specification does not exercise
OthersAtRest == PublishAtRest /\ ReadyAtRest /\ ConfigAtRest /\ CacheAtRest

Init == RunInit /\ TraceAtRest /\ OthersAtRest

\* a variant with request.headers.get("X-Trace-ID", str(uuid.uuid4()))
TraceIdOf_DefaultOnly(header, uuid) == IF header = NoHeader THEN uuid ELSE header

\* trace_id = request.headers.get("X-Trace-ID") or str(uuid.uuid4())
TraceIdOf(header, uuid) == IF header \in {NoHeader, ""} THEN uuid ELSE header

\* a request arrives: POST /v1/run/{agent_id}; it enters
\* TraceIDMiddleware.dispatch, which fixes trace_id and calls call_next
Receive ==
    /\ pc = "idle"
    /\ \E r \in Requests : request' = r
    /\ pc' = "received"
    /\ user_id' = ""
    /\ result' = ""
    /\ exc' = ""
    /\ calls' = <<>>
    /\ background' = <<>>
    /\ response' = NoResponse
    /\ logs' = <<>>
    /\ \E h \in TraceHeaders, u \in Uuids :
          /\ x_trace_id' = h
          /\ trace_id' = TraceIdOf(h, u)
    /\ mw' = "entered"
    /\ response_headers' = {}
    /\ UNCHANGED other_endpoints

\* FastAPI validates the body against RunRequest before it calls run_agent
Validate ==
    /\ pc = "received"
    /\ IF RequestValid(request)
       THEN pc' = "authenticate" /\ response' = response
       ELSE pc' = "sent" /\ response' = RequestValidationError
    /\ UNCHANGED mwvars
    /\ UNCHANGED <<request, user_id, result, exc, calls, background, logs>>
    /\ UNCHANGED other_endpoints

\* 2. Authentication
Authenticate ==
    /\ pc = "authenticate"
    /\ IF MissingAuthorization(request.authorization)
       THEN /\ pc' = "sent"
            /\ response' = MissingAuthorizationError
            /\ UNCHANGED <<user_id, calls, logs>>
       ELSE \E out \in ValidateTokenOutcomes(request.authorization) :
            LET d == OnValidateToken(out) IN
            /\ calls' = Append(calls, Call("validate_token",
                                           [token |-> request.authorization], out))
            /\ pc' = d.next
            /\ response' = d.resp
            /\ user_id' = IF out.raised THEN user_id ELSE out.ret.sub
            /\ logs' = IF out.raised
                       THEN Append(logs, Log("WARNING", "Authentication failed: " \o out.msg))
                       ELSE logs
    /\ UNCHANGED mwvars
    /\ UNCHANGED <<request, result, exc, background>>
    /\ UNCHANGED other_endpoints

\* 3. Policy Check
PolicyCheck ==
    /\ pc = "policy"
    /\ \E out \in VerifyAccessOutcomes :
       LET d == OnVerifyAccess(out) IN
       /\ calls' = Append(calls, Call("verify_access",
                                      [agent_id |-> request.agent_id,
                                       user_context |-> UserContext(user_id)], out))
       /\ pc' = d.next
       /\ response' = d.resp
       /\ logs' = CASE out.raised /\ out.kind = "ComplianceViolationError" ->
                        Append(logs, Log("WARNING", "Policy Violation: " \o out.msg))
                    [] out.raised /\ out.kind # "ComplianceViolationError" ->
                        Append(logs, Log("ERROR",
                                         "Policy check failed unexpectedly: " \o out.msg))
                    [] OTHER -> logs
    /\ UNCHANGED mwvars
    /\ UNCHANGED <<request, user_id, result, exc, background>>
    /\ UNCHANGED other_endpoints

\* 4. Budget Check
BudgetCheck ==
    /\ pc = "budget"
    /\ \E out \in CheckQuotaOutcomes :
       LET d == OnCheckQuota(out) IN
       /\ calls' = Append(calls, Call("check_quota",
                                      [user_id |-> user_id,
                                       cost_estimate |-> request.cost_estimate], out))
       /\ pc' = d.next
       /\ response' = d.resp
       /\ logs' = IF out.raised
                  THEN Append(logs, Log("ERROR", "Budget check failed: " \o out.msg))
                  ELSE logs
    /\ UNCHANGED mwvars
    /\ UNCHANGED <<request, user_id, result, exc, background>>
    /\ UNCHANGED other_endpoints

\* 5. Audit Start
AuditStart ==
    /\ pc = "audit_start"
    /\ \E out \in LogEventOutcomes :
       LET d == OnAuditStart(out) IN
       /\ calls' = Append(calls, Call("log_event",
                                      [event_type |-> "EXECUTION_START",
                                       agent_id |-> request.agent_id,
                                       user_id |-> user_id,
                                       cost_estimate |-> request.cost_estimate], out))
       /\ pc' = d.next
       /\ response' = d.resp
       /\ logs' = IF out.raised
                  THEN Append(logs, Log("ERROR", "Audit start log failed: " \o out.msg))
                  ELSE logs
    /\ UNCHANGED mwvars
    /\ UNCHANGED <<request, user_id, result, exc, background>>
    /\ UNCHANGED other_endpoints

\* 6. Execution
Execute ==
    /\ pc = "execute"
    /\ \E out \in ExecuteAgentOutcomes :
       LET d == OnExecuteAgent(out) IN
       /\ calls' = Append(calls, Call("execute_agent",
                                      [agent_id |-> request.agent_id,
                                       input_data |-> request.input_data,
                                       context |-> SessionCtx(request.session_context,
                                                              user_id)], out))
       /\ pc' = d.next
       /\ response' = d.resp
       /\ result' = IF out.raised THEN result ELSE out.ret
       /\ exc' = IF out.raised THEN out.msg ELSE exc
       /\ logs' = IF out.raised
                  THEN Append(logs, Log("ERROR", "Agent execution failed: " \o out.msg))
                  ELSE logs
    /\ UNCHANGED mwvars
    /\ UNCHANGED <<request, user_id, background>>
    /\ UNCHANGED other_endpoints

\* the except block of step 6: the EXECUTION_FAILED event, then the 500
AuditFailed ==
    /\ pc = "exec_failed"
    /\ \E out \in LogEventOutcomes :
       LET d == OnAuditFailed(out, exc) IN
       /\ calls' = Append(calls, Call("log_event",
                                      [event_type |-> "EXECUTION_FAILED",
                                       agent_id |-> request.agent_id,
                                       user_id |-> user_id,
                                       error |-> exc], out))
       /\ pc' = d.next
       /\ response' = d.resp
       /\ logs' = logs
    /\ UNCHANGED mwvars
    /\ UNCHANGED <<request, user_id, result, exc, background>>
    /\ UNCHANGED other_endpoints

\* a variant that awaits the charge in the handler instead of add_task
Settle_Awaited ==
    /\ pc = "settle"
    /\ \E out \in RecordTransactionOutcomes :
       /\ calls' = Append(calls, Call("record_transaction",
                                      SettlementTask(user_id, request, request.agent_id),
                                      out))
       /\ IF out.raised
          THEN pc' = "unhandled" /\ response' = response
          ELSE pc' = "audit_end" /\ response' = response
    /\ UNCHANGED mwvars
    /\ UNCHANGED <<request, user_id, result, exc, background, logs>>
    /\ UNCHANGED other_endpoints

\* 7. Settlement (Fire-and-Forget): the charge is added to the background tasks
Settle ==
    /\ pc = "settle"
    /\ background' = Append(background,
                            SettlementTask(user_id, request, request.agent_id))
    /\ pc' = "audit_end"
    /\ UNCHANGED mwvars
    /\ UNCHANGED <<request, user_id, result, exc, calls, response, logs>>
    /\ UNCHANGED other_endpoints

\* 8. Audit End
AuditEnd ==
    /\ pc = "audit_end"
    /\ \E out \in LogEventOutcomes :
       LET d == OnAuditEnd(out) IN
       /\ calls' = Append(calls, Call("log_event",
                                      [event_type |-> "EXECUTION_END",
                                       agent_id |-> request.agent_id,
                                       user_id |-> user_id,
                                       status |-> "success"], out))
       /\ pc' = d.next
       /\ response' = d.resp
       /\ logs' = IF out.raised
                  THEN Append(logs, Log("ERROR", "Audit end log failed: " \o out.msg))
                  ELSE logs
    /\ UNCHANGED mwvars
    /\ UNCHANGED <<request, user_id, result, exc, background>>
    /\ UNCHANGED other_endpoints

\* return RunResponse(result=result, transaction_id=str(uuid.uuid4()))
Respond ==
    /\ pc = "respond"
    /\ \E u \in Uuids : response' = RunResponse(result, u)
    /\ pc' = "sent"
    /\ UNCHANGED mwvars
    /\ UNCHANGED <<request, user_id, result, exc, calls, background, logs>>
    /\ UNCHANGED other_endpoints

\* after the response has been sent its background tasks run in order; a task
\* that raises ends the run of the tasks
RunBackground ==
    /\ pc = "sent"
    /\ mw # "entered"
    /\ background # <<>>
    /\ \E out \in RecordTransactionOutcomes :
       /\ calls' = Append(calls, Call("record_transaction", Head(background), out))
       /\ background' = IF out.raised THEN <<>> ELSE Tail(background)
    /\ UNCHANGED mwvars
    /\ UNCHANGED <<pc, request, user_id, result, exc, response, logs>>
    /\ UNCHANGED other_endpoints

\* the exception that left the handler is the one the last port call raised
PropagatingException == calls[Len(calls)].out.msg

\* an exception left run_agent: it passes through dispatch, whose
\* `response = await call_next(request)' raises, so that the lines after it
\* do not run, and reaches the application's handler for Exception, which
\* answers it
ServerError ==
    /\ pc = "unhandled"
    /\ mw' = "raised"
    /\ response' = GlobalExceptionHandler(PropagatingException)
    /\ logs' = Append(logs, Log("ERROR", "Global exception: " \o PropagatingException))
    /\ pc' = "sent"
    /\ UNCHANGED <<x_trace_id, trace_id, response_headers>>
    /\ UNCHANGED <<request, user_id, result, exc, calls, background>>
    /\ UNCHANGED other_endpoints

\* call_next returned the response of the route (of the handler, or of the
\* handlers of HTTPException and of request validation errors):
\* response.headers["X-Trace-ID"] = trace_id; return response
DispatchReturn ==
    /\ pc = "sent"
    /\ mw = "entered"
    /\ response_headers' = SetItem(response_headers, "X-Trace-ID", trace_id)
    /\ mw' = "returned"
    /\ UNCHANGED <<x_trace_id, trace_id>>
    /\ UNCHANGED <<pc, request, user_id, result, exc, calls, background, response, logs>>
    /\ UNCHANGED other_endpoints

\* the request is over
Finish ==
    /\ pc = "sent"
    /\ mw # "entered"
    /\ background = <<>>
    /\ pc' = "done"
    /\ UNCHANGED mwvars
    /\ UNCHANGED <<request, user_id, result, exc, calls, background, response, logs>>
    /\ UNCHANGED other_endpoints

\* nothing of a request that is over is kept: its locals, its response and
\* its BackgroundTasks are dropped, and the next request starts afresh
Idle ==
    /\ pc = "done"
    /\ pc' = "idle"
    /\ request' = NoRequest
    /\ user_id' = ""
    /\ result' = ""
    /\ exc' = ""
    /\ calls' = <<>>
    /\ background' = <<>>
    /\ response' = NoResponse
    /\ logs' = <<>>
    /\ x_trace_id' = NoHeader
    /\ trace_id' = ""
    /\ mw' = "idle"
    /\ response_headers' = {}
    /\ UNCHANGED other_endpoints

Next ==
    \/ Receive
    \/ Validate
    \/ Authenticate
    \/ PolicyCheck
    \/ BudgetCheck
    \/ AuditStart
    \/ Execute
    \/ AuditFailed
    \/ Settle
    \/ AuditEnd
    \/ Respond
    \/ ServerError
    \/ DispatchReturn
    \/ RunBackground
    \/ Finish
    \/ Idle

Spec == Init /\ [][Next]_vars

----------------------------------------------------------------------------
\* Vocabulary of the properties

\* the response of the current request is fixed
Answered == pc \in {"sent", "done"}

\* the request has entered the handler run_agent or was rejected before it
Handled == pc \notin {"idle", "received"}

CallsOf(op) == {i \in DOMAIN calls : calls[i].op = op}

Called(op) == CallsOf(op) # {}

LogEventCalls(event_type) ==
    {i \in CallsOf("log_event") : calls[i].args.event_type = event_type}

NoCredential == request.authorization \in {NoHeader, ""}

NoPortCalled == calls = <<>> /\ background = <<>>

IdentityRaised == \E i \in CallsOf("validate_token") : calls[i].out.raised

PolicyRaised == \E i \in CallsOf("verify_access") : calls[i].out.raised

PolicyAllowed ==
    \E i \in CallsOf("verify_access") : ~calls[i].out.raised /\ calls[i].out.ret

PolicyReturnedFalse ==
    \E i \in CallsOf("verify_access") : ~calls[i].out.raised /\ ~calls[i].out.ret

BudgetRaised == \E i \in CallsOf("check_quota") : calls[i].out.raised

BudgetDenied ==
    \E i \in CallsOf("check_quota") : ~calls[i].out.raised /\ ~calls[i].out.ret

AuditStartRaised == \E i \in LogEventCalls("EXECUTION_START") : calls[i].out.raised

AuditEndRaised == \E i \in LogEventCalls("EXECUTION_END") : calls[i].out.raised

ExecutionReturned == \E i \in CallsOf("execute_agent") : ~calls[i].out.raised

ChargeRaised == \E i \in CallsOf("record_transaction") : calls[i].out.raised

\* no settlement: neither scheduled nor run
NoSettlement == background = <<>> /\ ~Called("record_transaction")

----------------------------------------------------------------------------
\* Properties of run_agent

\* C1 (as stated): every request that carries no Authorization header, or an
\* empty one, is answered 401, and no identity, policy, budget, audit or
\* execution port is called for it.
C1_NoCredentialAlways401 ==
    (Handled /\ NoCredential) =>
        /\ NoPortCalled
        /\ Answered => response.status = HTTP_401_UNAUTHORIZED

\* C1 (amended): every request whose body passes validation (cost_estimate
\* >= 0) and that carries no Authorization header, or an empty one, is
\* answered 401 "Missing Authorization header", and no port is called for it;
\* a request without credential whose body fails validation is answered 422,
\* also without any port call.
C1_NoCredential401NoPortCall ==
    (Handled /\ NoCredential) =>
        /\ NoPortCalled
        /\ Answered =>
              response = IF request.cost_estimate >= 0
                         THEN HTTPException(HTTP_401_UNAUTHORIZED,
                                            "Missing Authorization header")
                         ELSE RequestValidationError

C1_Witness ==
    /\ pc = "done"
    /\ request.authorization = ""
    /\ request.cost_estimate >= 0
    /\ response.status = HTTP_401_UNAUTHORIZED

\* C2: if the budget port raises during the quota check (authentication and
\* policy check having succeeded), the endpoint answers 402.
C2_BudgetRaiseAnswers402 ==
    (PolicyAllowed /\ BudgetRaised) => response.status = HTTP_402_PAYMENT_REQUIRED

C4_AuditStartFailureIsFatal ==
    AuditStartRaised =>
        /\ response.status = HTTP_500_INTERNAL_SERVER_ERROR
        /\ ~Called("execute_agent")
        /\ NoSettlement

C4_Witness == pc = "done" /\ AuditStartRaised

\* C5: if execution succeeded and the audit port raises only on the
\* EXECUTION_END event, the request is still answered 200 with the result the
\* execution port returned.
C5_AuditEndFailureIsSoft ==
    (ExecutionReturned /\ AuditEndRaised) =>
        /\ pc \in {"respond", "sent", "done"}
        /\ Answered =>
              /\ response.status = HTTP_200_OK
              /\ \A i \in CallsOf("execute_agent") :
                    response.body.result = calls[i].out.ret

C5_Witness ==
    /\ pc = "done"
    /\ AuditEndRaised
    /\ \A i \in LogEventCalls("EXECUTION_START") : ~calls[i].out.raised
    /\ response.status = HTTP_200_OK

\* the step runs the settlement charge
ChargeRuns ==
    /\ Len(calls') = Len(calls) + 1
    /\ calls'[Len(calls')].op = "record_transaction"

\* C6: the settlement charge is a background action the response path does
\* not wait for: when the charge call runs, the response is already fixed as
\* 200 with the execution result, the charge leaves it as it is, and a charge
\* that raised leaves the request answered 200 with the execution result.
C6_SettlementAfterResponse ==
    /\ [][ChargeRuns =>
            /\ response.status = HTTP_200_OK
            /\ response.body.result = result
            /\ response' = response]_vars
    /\ [](ChargeRaised =>
            /\ response.status = HTTP_200_OK
            /\ \A i \in CallsOf("execute_agent") :
                  response.body.result = calls[i].out.ret)

C6_Witness ==
    /\ pc = "done"
    /\ ChargeRaised
    /\ response.status = HTTP_200_OK

C8_NegativeCostRejectedZeroAccepted ==
    /\ (Handled /\ request.cost_estimate < 0) =>
            /\ response.status = HTTP_422_UNPROCESSABLE_ENTITY
            /\ Answered
            /\ NoPortCalled
    /\ (Handled /\ request.cost_estimate = 0) =>
            /\ response.status # HTTP_422_UNPROCESSABLE_ENTITY
            /\ \A i \in CallsOf("check_quota") : calls[i].args.cost_estimate = 0
            /\ \A i \in DOMAIN background : background[i].amount = 0
            /\ \A i \in CallsOf("record_transaction") : calls[i].args.amount = 0

C8_Witness ==
    /\ pc = "done"
    /\ request.cost_estimate = 0
    /\ response.status = HTTP_200_OK
    /\ Called("check_quota")
    /\ Called("log_event")
    /\ Called("execute_agent")
    /\ Called("record_transaction")

\* C9: if the policy port returns an explicit false (without raising), the
\* answer is 403 and the pipeline does not continue to the budget check, the
\* audit or the execution.
C9_PolicyFalseAnswers403 ==
    (PolicyReturnedFalse /\ Answered) =>
        /\ response.status = HTTP_403_FORBIDDEN
        /\ ~Called("check_quota")
        /\ ~Called("log_event")
        /\ ~Called("execute_agent")

\* C10: when the policy check raises, a compliance violation is answered 403
\* with a detail carrying the violation message and any other exception 500
\* "Policy check failed"; in both cases no audit event is logged and neither
\* the budget check nor the execution is invoked.
C10_PolicyErrorMappedByKind ==
    \A i \in CallsOf("verify_access") :
        calls[i].out.raised =>
            /\ response =
                  IF calls[i].out.kind = "ComplianceViolationError"
                  THEN HTTPException(HTTP_403_FORBIDDEN,
                                     "Policy violation: " \o calls[i].out.msg)
                  ELSE HTTPException(HTTP_500_INTERNAL_SERVER_ERROR,
                                     "Policy check failed")
            /\ ~Called("log_event")
            /\ ~Called("check_quota")
            /\ ~Called("execute_agent")
            /\ NoSettlement

C10_Witness ==
    /\ pc = "done"
    /\ \E i \in CallsOf("verify_access") :
          calls[i].out.raised /\ calls[i].out.kind = "ComplianceViolationError"
    /\ response.status = HTTP_403_FORBIDDEN

ExecutionRaised == \E i \in CallsOf("execute_agent") : calls[i].out.raised

\* C11: whenever the execution port raises, an EXECUTION_FAILED audit event
\* carrying agent_id, user_id and the error text is emitted, the answer is 500
\* with a detail containing the execution error message, and neither a
\* settlement nor an EXECUTION_END event is produced.
C11_ExecutionFailureAudited500 ==
    \A i \in CallsOf("execute_agent") :
        (calls[i].out.raised /\ Answered) =>
            /\ \E j \in LogEventCalls("EXECUTION_FAILED") :
                  /\ j > i
                  /\ calls[j].args.agent_id = request.agent_id
                  /\ calls[j].args.user_id = user_id
                  /\ calls[j].args.error = calls[i].out.msg
            /\ response = HTTPException(HTTP_500_INTERNAL_SERVER_ERROR,
                                        "Agent execution failed: " \o calls[i].out.msg)
            /\ NoSettlement
            /\ LogEventCalls("EXECUTION_END") = {}

\* the dict the caller supplied as session_context ({} when it is None)
SuppliedContext ==
    IF request.session_context.none THEN {} ELSE request.session_context.dict

\* C12: the context passed to the execution port has user_id equal to the
\* authenticated subject, whatever user_id key the caller put in
\* session_context, and every other caller-supplied key is passed through
\* unchanged.
C12_ContextUserIdIsAuthenticated ==
    \A i \in CallsOf("execute_agent") :
        LET ctx == calls[i].args.context IN
        /\ {p \in ctx : p[1] = "user_id"} =
              {<<"user_id", Subject[request.authorization]>>}
        /\ {p \in ctx : p[1] # "user_id"} =
              {p \in SuppliedContext : p[1] # "user_id"}

C12_Witness ==
    /\ Called("execute_agent")
    /\ <<"user_id", "admin">> \in SuppliedContext
    /\ <<"custom", "value">> \in SuppliedContext

\* the value of the X-Trace-ID header of the response, as a set: empty when
\* the response has no such header
OutboundTraceIds == {p[2] : p \in {q \in response_headers : q[1] = "X-Trace-ID"}}

\* the inbound header counts as supplied when it is present and non-empty
TraceIdSupplied == x_trace_id \notin {NoHeader, ""}

\* the header the contract asks for: the inbound value when supplied, and a
\* generated, non-empty token otherwise
TraceHeaderAsSpecified ==
    /\ Cardinality(OutboundTraceIds) = 1
    /\ TraceIdSupplied => OutboundTraceIds = {x_trace_id}
    /\ ~TraceIdSupplied => OutboundTraceIds \subseteq Uuids

\* the exception left the handler and was answered by the application's
\* handler for Exception
AnsweredByGlobalHandler == Answered /\ mw = "raised"

\* C13: every response, success or error, the 500 of the top-level handler
\* for an unhandled exception included, carries an X-Trace-ID header whose
\* value is the inbound value if supplied and non-empty and a generated
\* token otherwise.
C13_EveryResponseCarriesTraceId == pc = "done" => TraceHeaderAsSpecified

\* C14: when the handler returns a response through the middleware, the
\* outbound X-Trace-ID equals the inbound one verbatim if it was supplied
\* and non-empty, and is a generated non-empty identifier if the inbound
\* header is absent or empty.
C14_TraceIdRoundTrip ==
    mw = "returned" =>
        /\ TraceHeaderAsSpecified
        /\ "" \notin OutboundTraceIds
        /\ NoHeader \notin OutboundTraceIds

C14_Witness ==
    /\ pc = "done"
    /\ mw = "returned"
    /\ x_trace_id = ""
    /\ response.status = HTTP_200_OK

\* C16: an exception that the route handler does not convert into an HTTP
\* error is answered by the application's handler with 500 and exactly the
\* body {"detail": "Internal Server Error"}, which holds none of the
\* exception's text.
C16_UnhandledIsGeneric500 ==
    AnsweredByGlobalHandler =>
        /\ response = [status |-> HTTP_500_INTERNAL_SERVER_ERROR,
                       body |-> [detail |-> "Internal Server Error"]]
        /\ response.body.detail # PropagatingException
        /\ \E i \in 1..Len(logs) :
              logs[i] = Log("ERROR", "Global exception: " \o PropagatingException)

C16_Witness ==
    /\ pc = "done"
    /\ mw = "raised"
    /\ ExecutionRaised
    /\ PropagatingException \in ErrMsgs

----------------------------------------------------------------------------
\* Concurrent requests in TraceIDMiddleware.dispatch
\*
\* Each request is handled by a task of its own; dispatch awaits call_next,
\* which runs the rest of the application in a child task, and the tasks
\* interleave at their suspension points.  logger.contextualize binds
\* trace_id in loguru's context variable, which every task sees through its
\* own context; a child task starts with a copy of its parent's context.

\* requests handled at the same time
MaxTasks == 2

\* suspension points of a handler at which it emits a log record
MaxAwaits == 2

Tasks == 1..MaxTasks

\* the contexts: of the task that runs dispatch and of the one that runs the
\* handler, for each request
CtxKeys == Tasks \X {"dispatch", "handler"}

\* the context variable has no trace_id
Unbound == "<unbound>"

IdleTask ==
    [pc |-> "idle", x_trace_id |-> NoHeader, trace_id |-> "", awaits |-> 0,
     headers |-> {}]

\* a variant that keeps the binding in one place shared by all tasks
Contextualize_Shared(ctx, key, id) == [k \in DOMAIN ctx |-> id]

\* with logger.contextualize(trace_id=trace_id): the binding is made in the
\* context of the running task
Contextualize(ctx, key, id) == [ctx EXCEPT ![key] = id]

\* leaving the with block restores the context variable of the running task
ResetContext(ctx, key) == [ctx EXCEPT ![key] = Unbound]

\* call_next starts the handler's task with a copy of the current context
CopyContext(ctx, from, to) == [ctx EXCEPT ![to] = ctx[from]]

\* a record as a sink receives it: record["extra"]["trace_id"] is read from
\* the context of the task that emits it
Record(t, text, ctx, key) == [task |-> t, text |-> text, trace_id |-> ctx[key]]

\* uuid4 tokens already generated
UsedUuids == {tasks[t].trace_id : t \in Tasks} \cap Uuids

\* what the middleware leaves alone
not_trace == <<runvars, publishvars, readyvars, configvars, cachevars>>

TraceInit ==
    /\ RunInit
    /\ OthersAtRest
    /\ tasks = [t \in Tasks |-> IdleTask]
    /\ context = [k \in CtxKeys |-> Unbound]
    /\ records = {}

\* dispatch up to its first suspension point: trace_id is fixed, bound in the
\* context, the first record is emitted and call_next starts the handler
DispatchEnter(t) ==
    /\ tasks[t].pc = "idle"
    /\ \E h \in TraceHeaders, u \in Uuids \ UsedUuids :
        LET id == TraceIdOf(h, u)
            bound == Contextualize(context, <<t, "dispatch">>, id)
        IN  /\ tasks' = [tasks EXCEPT ![t] =
                           [@ EXCEPT !.pc = "handler", !.x_trace_id = h,
                                     !.trace_id = id]]
            /\ records' = records \cup
                   {Record(t, "Starting request", bound, <<t, "dispatch">>)}
            /\ context' = CopyContext(bound, <<t, "dispatch">>, <<t, "handler">>)
    /\ UNCHANGED not_trace

\* the handler resumes after an await and emits a record
HandlerLog(t) ==
    /\ tasks[t].pc = "handler"
    /\ tasks[t].awaits < MaxAwaits
    /\ tasks' = [tasks EXCEPT ![t].awaits = @ + 1]
    /\ records' = records \cup
           {Record(t, IF tasks[t].awaits = 0 THEN "Sleeping" ELSE "Waking",
                   context, <<t, "handler">>)}
    /\ UNCHANGED <<context, not_trace>>

\* the handler's task ends: with a response, or with an exception
HandlerEnd(t) ==
    /\ tasks[t].pc = "handler"
    /\ \E outcome \in {"returned", "raised"} :
          tasks' = [tasks EXCEPT ![t].pc = outcome]
    /\ UNCHANGED <<context, records, not_trace>>

\* dispatch resumes from `await call_next(request)': with the response it
\* sets the header and emits the last record; with an exception it leaves
\* the with block at once
DispatchResume(t) ==
    /\ tasks[t].pc \in {"returned", "raised"}
    /\ IF tasks[t].pc = "returned"
       THEN /\ tasks' = [tasks EXCEPT ![t] =
                   [@ EXCEPT !.pc = "done",
                             !.headers = SetItem(@, "X-Trace-ID", tasks[t].trace_id)]]
            /\ records' = records \cup
                   {Record(t, "Finished request", context, <<t, "dispatch">>)}
       ELSE /\ tasks' = [tasks EXCEPT ![t].pc = "failed"]
            /\ records' = records
    /\ context' = ResetContext(context, <<t, "dispatch">>)
    /\ UNCHANGED not_trace

TraceNext ==
    \E t \in Tasks :
        \/ DispatchEnter(t)
        \/ HandlerLog(t)
        \/ HandlerEnd(t)
        \/ DispatchResume(t)

TraceSpec == TraceInit /\ [][TraceNext]_vars

\* the requests in flight or over, and those with a trace id unlike t's
Arrived(t) == tasks[t].pc # "idle"
OthersWithDistinctId(t) ==
    {o \in Tasks : o # t /\ Arrived(o) /\ tasks[o].trace_id # tasks[t].trace_id}

----------------------------------------------------------------------------
\* POST /v1/architect/publish: publish_agent

HTTP_400_BAD_REQUEST == 400

\* names and slugs: they differ in case, in Unicode normalization form (the
\* code points are written out), or altogether
AgentNames ==
    {"my-agent", "My-Agent", "Caf<U+00E9>-Agent", "Cafe<U+0301>-Agent"}

\* lower case and Unicode normalization form C of the names, which the
\* handler does not apply
Lower ==
    [n \in AgentNames |-> IF n = "My-Agent" THEN "my-agent" ELSE n]
NFC ==
    [n \in AgentNames |-> IF n = "Cafe<U+0301>-Agent" THEN "Caf<U+00E9>-Agent" ELSE n]

\* request.agent_definition: a dict with the agent's metadata
AgentDefinitions == {[metadata |-> [name |-> n]] : n \in {"my-agent", "My-Agent"}}

Signatures == {"signature_xyz"}

\* class PublishRequest(BaseModel): agent_definition, slug
PublishRequests == [agent_definition : AgentDefinitions, slug : AgentNames]

\* validator.validate(request.agent_definition)
SchemaValidateOutcomes ==
    {Returned("None")} \cup {Raised("Exception", m) : m \in ErrMsgs}

\* ManifestLoader.load_from_dict(request.agent_definition): the loaded
\* definition, of which metadata.name is read, or an exception
LoadFromDictOutcomes ==
    {Returned([metadata |-> [name |-> n]]) : n \in AgentNames}
    \cup {Raised("Exception", m) : m \in ErrMsgs}

\* anchor.seal(request.agent_definition)
SealOutcomes ==
    {Returned(sig) : sig \in Signatures} \cup {Raised("Exception", m) : m \in ErrMsgs}

\* class PublishResponse(BaseModel): signature, status, artifact
PublishResponse(sig, artifact) ==
    [status |-> HTTP_200_OK,
     body |-> [signature |-> sig, status |-> "published", artifact |-> artifact]]

\* a variant that goes on to the next step when the validator raises
OnValidate_LogOnly(out) == Go("load")

\* 1. try: validator.validate(...)  except Exception: raise HTTPException(400)
OnValidate(out) ==
    IF out.raised
    THEN Fail(HTTPException(HTTP_400_BAD_REQUEST,
                            "Invalid agent definition: " \o out.msg))
    ELSE Go("load")

\* 2. except Exception around load_from_dict: raise HTTPException(400)
OnLoadFromDict(out) ==
    IF out.raised
    THEN Fail(HTTPException(HTTP_400_BAD_REQUEST,
                            "Failed to parse agent definition: " \o out.msg))
    ELSE Go("isomorphism")

\* a variant that compares after lower-casing and normalizing
SlugDiffers_Normalized(slug, name) == NFC[Lower[slug]] # NFC[Lower[name]]

\* if request.slug != agent_name:
SlugDiffers(slug, name) == slug # name

IsomorphismError(slug, name) ==
    HTTPException(HTTP_400_BAD_REQUEST,
                  "Slug '" \o slug \o "' does not match Agent Name '" \o name
                  \o "' (Isomorphism check failed)")

\* 3. try: signature = anchor.seal(...)  except Exception: raise HTTPException(500)
\* return PublishResponse(signature, "published", request.agent_definition)
OnSeal(out, req) ==
    IF out.raised
    THEN Fail(HTTPException(HTTP_500_INTERNAL_SERVER_ERROR, "Failed to seal artifact"))
    ELSE [next |-> "sent", resp |-> PublishResponse(out.ret, req.agent_definition)]

PublishInit == RunInit /\ TraceAtRest /\ OthersAtRest

\* what publish_agent leaves alone
not_publish ==
    <<user_id, result, exc, background, mwvars, tracevars, readyvars, configvars,
      cachevars>>

\* a request arrives: POST /v1/architect/publish
PublishReceive ==
    /\ pc \in {"idle", "sent"}
    /\ \E r \in PublishRequests : request' = r
    /\ pc' = "validate"
    /\ calls' = <<>>
    /\ response' = NoResponse
    /\ logs' = <<>>
    /\ agent_name' = ""
    /\ signature' = ""
    /\ UNCHANGED not_publish

\* 1. Validate Schema
PublishValidate ==
    /\ pc = "validate"
    /\ \E out \in SchemaValidateOutcomes :
       LET d == OnValidate(out) IN
       /\ calls' = Append(calls, Call("validate", request.agent_definition, out))
       /\ pc' = d.next
       /\ response' = d.resp
       /\ logs' = IF out.raised
                  THEN Append(logs, Log("WARNING", "Schema validation failed: " \o out.msg))
                  ELSE logs
    /\ UNCHANGED <<request, agent_name, signature>>
    /\ UNCHANGED not_publish

\* 2. agent_def = ManifestLoader.load_from_dict(request.agent_definition)
\*    agent_name = agent_def.metadata.name
PublishLoad ==
    /\ pc = "load"
    /\ \E out \in LoadFromDictOutcomes :
       LET d == OnLoadFromDict(out) IN
       /\ calls' = Append(calls, Call("load_from_dict", request.agent_definition, out))
       /\ pc' = d.next
       /\ response' = d.resp
       /\ agent_name' = IF out.raised THEN agent_name ELSE out.ret.metadata.name
       /\ logs' = IF out.raised
                  THEN Append(logs, Log("ERROR", "Failed to parse agent definition: " \o out.msg))
                  ELSE logs
    /\ UNCHANGED <<request, signature>>
    /\ UNCHANGED not_publish

\* 2. Enforce Isomorphism (Slug == Name); the HTTPException raised here is
\*    re-raised by `except HTTPException: raise'
EnforceIsomorphism ==
    /\ pc = "isomorphism"
    /\ IF SlugDiffers(request.slug, agent_name)
       THEN pc' = "sent" /\ response' = IsomorphismError(request.slug, agent_name)
       ELSE pc' = "seal" /\ response' = response
    /\ UNCHANGED <<request, calls, logs, agent_name, signature>>
    /\ UNCHANGED not_publish

\* 3. Seal with TrustAnchor
PublishSeal ==
    /\ pc = "seal"
    /\ \E out \in SealOutcomes :
       LET d == OnSeal(out, request) IN
       /\ calls' = Append(calls, Call("seal", request.agent_definition, out))
       /\ pc' = d.next
       /\ response' = d.resp
       /\ signature' = IF out.raised THEN signature ELSE out.ret
       /\ logs' = IF out.raised
                  THEN Append(logs, Log("ERROR", "Sealing failed: " \o out.msg))
                  ELSE logs
    /\ UNCHANGED <<request, agent_name>>
    /\ UNCHANGED not_publish

PublishNext ==
    \/ PublishReceive
    \/ PublishValidate
    \/ PublishLoad
    \/ EnforceIsomorphism
    \/ PublishSeal

PublishSpec == PublishInit /\ [][PublishNext]_vars

\* the calls of a port that returned, and those that raised
ReturnedCalls(op) == {i \in CallsOf(op) : ~calls[i].out.raised}
RaisedCalls(op) == {i \in CallsOf(op) : calls[i].out.raised}

\* metadata.name of the definition the loader returned
LoadedNames == {calls[i].out.ret.metadata.name : i \in ReturnedCalls("load_from_dict")}

PublishCheckFailed ==
    \/ RaisedCalls("validate") # {}
    \/ RaisedCalls("load_from_dict") # {}
    \/ \E name \in LoadedNames : request.slug # name

\* C18: the sealing port is invoked only after schema validation returned
\* without raising, the definition was loaded and the slug equals the
\* loaded name; when validation or loading raises, or the names differ, the
\* answer is 400, the sealing port is not invoked and no signature is
\* returned.
C18_SealOnlyAfterAllChecks ==
    /\ \A j \in CallsOf("seal") :
          \E v \in ReturnedCalls("validate"), l \in ReturnedCalls("load_from_dict") :
              /\ v < l /\ l < j
              /\ request.slug = calls[l].out.ret.metadata.name
    /\ PublishCheckFailed =>
          /\ ~Called("seal")
          /\ signature = ""
          /\ pc = "sent" =>
                /\ response.status = HTTP_400_BAD_REQUEST
                /\ "signature" \notin DOMAIN response.body

C18_Witness ==
    /\ pc = "sent"
    /\ RaisedCalls("validate") # {}
    /\ request.slug = request.agent_definition.metadata.name

----------------------------------------------------------------------------
\* GET /health/ready: readiness_check

HTTP_503_SERVICE_UNAVAILABLE == 503

\* the condition of what stands behind the three ports.  The secret-store
\* port is the VaultAdapter of adapters.py or another object with
\* get_secret (the manager that dependencies.py provides, a test double).
\* The identity port
\* is the provider ("healthy": it rejects what is not a valid credential;
\* "unreachable"), or a port that accepts the probe's token, as a test
\* double does
Backends ==
    [vault : {"healthy", "unreachable"},
     vault_port : {"VaultAdapter", "other"},
     identity : {"healthy", "unreachable", "accepts_probe"},
     budget : {"healthy", "unreachable"}]

\* self.manager.secrets.get_secret(key): the secret, or an exception when
\* there is none under the key or when the store cannot be reached
SecretsGetSecretOutcomes(condition) ==
    IF condition = "healthy"
    THEN {Returned("secret"), Raised("SecretNotFoundError", "not found")}
    ELSE {Raised("Exception", m) : m \in ErrMsgs}

\* a variant with `except SecretNotFoundError' alone
VaultAdapterGetSecret_NotFoundOnly(inner, default) ==
    IF inner.raised /\ inner.kind = "SecretNotFoundError"
    THEN Returned(default) ELSE inner

\* VaultAdapter.get_secret(key, default): every exception of the manager
\* is caught and default is returned
VaultAdapterGetSecret(inner, default) ==
    IF inner.raised THEN Returned(default) ELSE inner

\* get_secret("health_check_probe", default="ok") of a port that is not the
\* adapter: the secret or the default, or the exception of the store
GetSecretOutcomes(condition) ==
    IF condition = "healthy"
    THEN {Returned("secret"), Returned("ok")}
    ELSE {Raised("Exception", m) : m \in ErrMsgs}

\* identity.validate_token("health_probe"): the token is no credential
ProbeTokenOutcomes(condition) ==
    CASE condition = "healthy" -> {Raised("InvalidTokenError", "Invalid token")}
      [] condition = "unreachable" -> {Raised("Exception", m) : m \in ErrMsgs}
      [] OTHER -> {Returned(UserContext("user123"))}

\* budget.check_quota(user_id="health_probe", cost_estimate=0.0)
ProbeQuotaOutcomes(condition) ==
    IF condition = "healthy"
    THEN {Returned(TRUE), Returned(FALSE)}
    ELSE {Raised("Exception", m) : m \in ErrMsgs}

\* a variant that keeps the last failure only
RecordError_LastOnly(errs, port, out) ==
    IF out.raised THEN {<<port, out.msg>>} ELSE errs

\* except Exception as e: errors[port] = str(e)
RecordError(errs, port, out) ==
    IF out.raised THEN SetItem(errs, port, out.msg) ELSE errs

\* class HealthStatus(BaseModel): status, details = None
HealthStatus(st) == [status |-> HTTP_200_OK, body |-> [status |-> st, details |-> "None"]]

\* if errors: raise HTTPException(503, {"status": "unhealthy", "details": errors})
\* return HealthStatus(status="ready")
ReadinessResponse(errs) ==
    IF errs # {}
    THEN HTTPException(HTTP_503_SERVICE_UNAVAILABLE,
                       [status |-> "unhealthy", details |-> errs])
    ELSE HealthStatus("ready")

ReadyInit == RunInit /\ TraceAtRest /\ OthersAtRest

\* what readiness_check leaves alone
not_ready ==
    <<request, user_id, result, exc, background, mwvars, tracevars, publishvars,
      configvars, cachevars>>

\* a request arrives: GET /health/ready; errors = {}
ReadyReceive ==
    /\ pc \in {"idle", "sent"}
    /\ \E b \in Backends : backends' = b
    /\ pc' = "vault"
    /\ errors' = {}
    /\ lookups' = <<>>
    /\ calls' = <<>>
    /\ response' = NoResponse
    /\ logs' = <<>>
    /\ UNCHANGED not_ready

\* Check Vault
ProbeVault ==
    /\ pc = "vault"
    /\ LET args == [key |-> "health_check_probe", default |-> "ok"] IN
       IF backends.vault_port = "VaultAdapter"
       THEN \E inner \in SecretsGetSecretOutcomes(backends.vault) :
               LET out == VaultAdapterGetSecret(inner, args.default) IN
               /\ lookups' = Append(lookups, Call("secrets.get_secret", args.key, inner))
               /\ calls' = Append(calls, Call("get_secret", args, out))
               /\ errors' = RecordError(errors, "vault", out)
               /\ logs' = IF out.raised
                          THEN Append(logs, Log("ERROR",
                                 "Readiness Check Failed: Vault unreachable. Error: " \o out.msg))
                          ELSE logs
       ELSE \E out \in GetSecretOutcomes(backends.vault) :
               /\ lookups' = lookups
               /\ calls' = Append(calls, Call("get_secret", args, out))
               /\ errors' = RecordError(errors, "vault", out)
               /\ logs' = IF out.raised
                          THEN Append(logs, Log("ERROR",
                                 "Readiness Check Failed: Vault unreachable. Error: " \o out.msg))
                          ELSE logs
    /\ pc' = "identity"
    /\ UNCHANGED <<response, backends>>
    /\ UNCHANGED not_ready

\* Check Identity Provider
ProbeIdentity ==
    /\ pc = "identity"
    /\ \E out \in ProbeTokenOutcomes(backends.identity) :
       /\ calls' = Append(calls, Call("validate_token", "health_probe", out))
       /\ errors' = RecordError(errors, "identity", out)
       /\ logs' = IF out.raised
                  THEN Append(logs, Log("ERROR",
                         "Readiness Check Failed: Identity Provider error. Error: " \o out.msg))
                  ELSE logs
    /\ pc' = "budget"
    /\ UNCHANGED <<response, backends, lookups>>
    /\ UNCHANGED not_ready

\* Check Budget (Database/Redis)
ProbeBudget ==
    /\ pc = "budget"
    /\ \E out \in ProbeQuotaOutcomes(backends.budget) :
       /\ calls' = Append(calls, Call("check_quota",
                                      [user_id |-> "health_probe", cost_estimate |-> 0], out))
       /\ errors' = RecordError(errors, "budget", out)
       /\ logs' = IF out.raised
                  THEN Append(logs, Log("ERROR",
                         "Readiness Check Failed: Budget Service error. Error: " \o out.msg))
                  ELSE logs
    /\ pc' = "respond"
    /\ UNCHANGED <<response, backends, lookups>>
    /\ UNCHANGED not_ready

\* 503 with the errors, or 200 "ready"
ReadyRespond ==
    /\ pc = "respond"
    /\ response' = ReadinessResponse(errors)
    /\ pc' = "sent"
    /\ UNCHANGED <<calls, logs, errors, backends, lookups>>
    /\ UNCHANGED not_ready

ReadyNext ==
    \/ ReadyReceive
    \/ ProbeVault
    \/ ProbeIdentity
    \/ ProbeBudget
    \/ ReadyRespond

ReadySpec == ReadyInit /\ [][ReadyNext]_vars

\* the probes of readiness_check, as <<key in details, operation of the port>>
Probes ==
    {<<"vault", "get_secret">>, <<"identity", "validate_token">>,
     <<"budget", "check_quota">>}

\* the ports whose probe raised, each with the text of its exception
FailingProbes ==
    UNION {{<<pr[1], calls[i].out.msg>> : i \in RaisedCalls(pr[2])} : pr \in Probes}

\* the operations called, in order
CallOrder == [i \in 1..Len(calls) |-> calls[i].op]

AllHealthy ==
    /\ backends.vault = "healthy"
    /\ backends.identity = "healthy"
    /\ backends.budget = "healthy"

\* C20: when the secret store, the identity provider and the budget backend
\* are all reachable and healthy, GET /health/ready answers 200 with
\* status "ready".
C20_HealthyIsReady ==
    (pc = "sent" /\ AllHealthy) =>
        /\ response.status = HTTP_200_OK
        /\ response.body.status = "ready"

----------------------------------------------------------------------------
\* Further properties of run_agent

\* the step of the pipeline a call belongs to: the event for the audit port
StepOf(c) == IF c.op = "log_event" THEN c.args.event_type ELSE c.op

\* the steps of the pipeline that call a port while the request is handled
PipelineOrder ==
    <<"validate_token", "verify_access", "check_quota", "EXECUTION_START",
      "execute_agent", "EXECUTION_END">>

PipelineCalls == {i \in DOMAIN calls : \E k \in DOMAIN PipelineOrder : StepOf(calls[i]) = PipelineOrder[k]}

RankOf(i) == CHOOSE k \in DOMAIN PipelineOrder : StepOf(calls[i]) = PipelineOrder[k]

\* the call let the pipeline go on: it did not raise, and the budget check
\* returned allow
Succeeded(c) == ~c.out.raised /\ (c.op = "check_quota" => c.out.ret)

\* C25: within one request the port calls come strictly in the order
\* validate_token, verify_access, check_quota, log_event(EXECUTION_START),
\* execute_agent, log_event(EXECUTION_END), each at most once, and a step is
\* started only after every earlier step completed successfully; so
\* execute_agent is invoked only if authentication succeeded, the policy
\* check did not raise, the budget check returned allow and the start event
\* was recorded.
C25_PipelineIsSequential ==
    \A j \in PipelineCalls :
        /\ \A i \in PipelineCalls : i < j => RankOf(i) < RankOf(j)
        /\ \A r \in 1..(RankOf(j) - 1) :
              \E i \in PipelineCalls :
                  i < j /\ RankOf(i) = r /\ Succeeded(calls[i])

C25_Witness ==
    /\ pc = "done"
    /\ response.status = HTTP_200_OK
    /\ [i \in 1..6 |-> StepOf(calls[i])] = PipelineOrder

\* the EXECUTION_FAILED audit call raised
AuditFailedRaised == \E j \in LogEventCalls("EXECUTION_FAILED") : calls[j].out.raised

\* C26: when the execution port raises and the EXECUTION_FAILED audit call
\* raises too, the audit failure is swallowed and the answer is still 500
\* with the execution error message, not the generic fallback.
C26_SecondaryAuditIsBestEffort ==
    (Answered /\ ExecutionRaised /\ AuditFailedRaised) =>
        \A i \in CallsOf("execute_agent") :
            /\ response.status = HTTP_500_INTERNAL_SERVER_ERROR
            /\ response.body.detail = "Agent execution failed: " \o calls[i].out.msg

\* the charges scheduled for the request: waiting in the background tasks,
\* or already passed to the budget port
ScheduledCharges ==
    {background[i] : i \in DOMAIN background}
    \cup {calls[i].args : i \in CallsOf("record_transaction")}

NumberOfCharges == Len(background) + Cardinality(CallsOf("record_transaction"))

\* C27: the settlement charge is scheduled at most once per request, and it
\* is scheduled if and only if the execution port returned without raising;
\* it charges the authenticated user_id with amount equal to the request's
\* cost_estimate, whether or not the EXECUTION_END audit call fails later.
C27_ChargeOnceIffExecuted ==
    /\ NumberOfCharges <= 1
    /\ NumberOfCharges = 1 => ExecutionReturned
    /\ (Answered /\ ExecutionReturned) => NumberOfCharges = 1
    /\ \A task \in ScheduledCharges :
          /\ task.user_id = Subject[request.authorization]
          /\ task.amount = request.cost_estimate

C27_Witness ==
    /\ pc = "done"
    /\ AuditEndRaised
    /\ request.cost_estimate = 0
    /\ \E i \in CallsOf("record_transaction") : calls[i].args.amount = 0

\* the scheduler runs every task that can run: a request that was received
\* is handled to its end
FairSpec == Spec /\ WF_vars(Next)

\* the EXECUTION_START event was recorded: the audit port returned
StartRecorded == ReturnedCalls("log_event") \cap LogEventCalls("EXECUTION_START") # {}

\* the attempts to log a closing event
ClosingEvents == LogEventCalls("EXECUTION_END") \cup LogEventCalls("EXECUTION_FAILED")

\* at most one closing event is attempted, of the kind the execution decides,
\* after that execution and after a recorded EXECUTION_START
ClosingEventMatchesExecution ==
    /\ Cardinality(ClosingEvents) <= 1
    /\ \A j \in ClosingEvents :
          /\ \E s \in LogEventCalls("EXECUTION_START") : s < j /\ ~calls[s].out.raised
          /\ \E e \in CallsOf("execute_agent") :
                /\ e < j
                /\ calls[e].out.raised <=> calls[j].args.event_type = "EXECUTION_FAILED"
    /\ (Answered /\ Called("execute_agent")) => Cardinality(ClosingEvents) = 1

\* C29: in every request in which EXECUTION_START was recorded and the
\* execution port returned or raised, an attempt to log exactly one closing
\* event follows, EXECUTION_END if the execution returned and
\* EXECUTION_FAILED if it raised, and no closing event is attempted without
\* a recorded EXECUTION_START before it.
C29_AuditTrailIsClosed ==
    /\ []ClosingEventMatchesExecution
    /\ (StartRecorded /\ Called("execute_agent")) ~> (ClosingEvents # {})

C29_Witness ==
    /\ pc = "done"
    /\ StartRecorded
    /\ ExecutionRaised
    /\ LogEventCalls("EXECUTION_FAILED") # {}
    /\ LogEventCalls("EXECUTION_END") = {}

----------------------------------------------------------------------------
\* POST /v1/architect/simulate and POST /v1/architect/generate

Prompts == {"", "Write code"}

\* gatekeeper.get_policy_instruction_for_llm(): a list of policy texts
PolicyLists == {<<>>, <<"P1">>, <<"P1", "P2">>}

\* class SimulateRequest(BaseModel): agent_definition, input_data;
\* class GenerateRequest(BaseModel): prompt.  simulate_agent and
\* generate_vibe take no Authorization header: whatever is sent is not read
ArchitectRequests ==
    [endpoint : {"simulate"}, authorization : Authorizations,
     agent_definition : AgentDefinitions, input_data : InputData]
    \cup [endpoint : {"generate"}, authorization : Authorizations, prompt : Prompts]

GetPolicyInstructionOutcomes ==
    {Returned(l) : l \in PolicyLists} \cup {Raised("Exception", m) : m \in ErrMsgs}

\* "\n".join(policies)
RECURSIVE JoinLines(_)
JoinLines(lines) ==
    IF lines = <<>> THEN ""
    ELSE IF Len(lines) = 1 THEN lines[1]
    ELSE lines[1] \o "\n" \o JoinLines(Tail(lines))

\* class GenerateResponse(BaseModel): enriched_prompt, policies
GenerateResponse(prompt, policies) ==
    [status |-> HTTP_200_OK,
     body |-> [enriched_prompt |->
                   prompt \o "\n\n[GOVERNANCE POLICIES]\n" \o JoinLines(policies),
               policies |-> policies]]

\* class SimulateResponse(BaseModel): result, status
SimulateResponse(res) ==
    [status |-> HTTP_200_OK, body |-> [result |-> res, status |-> "success"]]

\* context = {"agent_definition": request.agent_definition, "mode": "simulation"}
SimulationContext(req) ==
    {<<"agent_definition", req.agent_definition>>, <<"mode", "simulation">>}

ArchitectInit == RunInit /\ TraceAtRest /\ OthersAtRest

\* what simulate_agent and generate_vibe leave alone
not_architect == <<user_id, result, exc, background, mwvars, other_endpoints>>

\* a request arrives at one of the two endpoints
ArchitectReceive ==
    /\ pc \in {"idle", "sent"}
    /\ \E r \in ArchitectRequests : request' = r /\ pc' = r.endpoint
    /\ calls' = <<>>
    /\ response' = NoResponse
    /\ logs' = <<>>
    /\ UNCHANGED not_architect

\* simulate_agent: the draft is executed at once
\* result = await mcp.execute_agent(agent_id="draft", ...)
Simulate ==
    /\ pc = "simulate"
    /\ \E out \in ExecuteAgentOutcomes :
       /\ calls' = Append(calls, Call("execute_agent",
                                      [agent_id |-> "draft",
                                       input_data |-> request.input_data,
                                       context |-> SimulationContext(request)], out))
       /\ response' = IF out.raised
                      THEN HTTPException(HTTP_500_INTERNAL_SERVER_ERROR,
                                         "Simulation failed: " \o out.msg)
                      ELSE SimulateResponse(out.ret)
       /\ logs' = IF out.raised
                  THEN Append(logs, Log("ERROR", "Simulation failed: " \o out.msg))
                  ELSE logs
    /\ pc' = "sent"
    /\ UNCHANGED request
    /\ UNCHANGED not_architect

\* generate_vibe: the policies of the gatekeeper are appended to the prompt
Generate ==
    /\ pc = "generate"
    /\ \E out \in GetPolicyInstructionOutcomes :
       /\ calls' = Append(calls, Call("get_policy_instruction_for_llm", <<>>, out))
       /\ response' = IF out.raised
                      THEN HTTPException(HTTP_500_INTERNAL_SERVER_ERROR,
                                         "Failed to generate vibe")
                      ELSE GenerateResponse(request.prompt, out.ret)
       /\ logs' = IF out.raised
                  THEN Append(logs, Log("ERROR", "Generate vibe failed: " \o out.msg))
                  ELSE logs
    /\ pc' = "sent"
    /\ UNCHANGED request
    /\ UNCHANGED not_architect

ArchitectNext ==
    \/ ArchitectReceive
    \/ Simulate
    \/ Generate

ArchitectSpec == ArchitectInit /\ [][ArchitectNext]_vars

\* C30: on no endpoint of the application is the execution port's
\* execute_agent invoked unless the request first authenticated a caller
\* and recorded an EXECUTION_START audit event.
C30_ExecutionOnlyAuthenticatedAndAudited ==
    \A e \in CallsOf("execute_agent") :
        /\ \E a \in ReturnedCalls("validate_token") : a < e
        /\ \E st \in ReturnedCalls("log_event") :
              st < e /\ calls[st].args.event_type = "EXECUTION_START"

----------------------------------------------------------------------------
\* Properties of the secret-store port in readiness_check

\* the secret-store port of the request is the VaultAdapter
ThroughVaultAdapter == pc # "idle" /\ backends.vault_port = "VaultAdapter"

\* the store could not be reached: the lookup of the manager raised
LookupRaised ==
    /\ backends.vault = "unreachable"
    /\ \E i \in DOMAIN lookups : lookups[i].out.raised

C28_VaultFailureIsReported ==
    (pc = "sent" /\ ThroughVaultAdapter /\ LookupRaised) =>
        /\ response.status = HTTP_503_SERVICE_UNAVAILABLE
        /\ \E p \in errors : p[1] = "vault"

----------------------------------------------------------------------------
\* Settings(): the resolution of the settings from their sources

\* fields of Settings, in the order of model_fields
SettingsFields == <<"SECRET_KEY", "DATABASE_URL">>

FieldNames == {SettingsFields[i] : i \in DOMAIN SettingsFields}

\* no value: None
None == "None"

\* the value a source holds for a field; every source holds its own
ValueOf(source, field) == source \o ":" \o field

\* what a construction of Settings finds: the secrets in the store and
\* whether it can be reached, the fields given by each other source,
\* whether VAULT_ADDR is set, and the class bound to the name VaultAdapter
\* in config.py (that of adapters.py, or a substitute taking config=)
SettingsSources ==
    [store : [FieldNames -> BOOLEAN], store_up : BOOLEAN, vault_addr : BOOLEAN,
     adapter_class : {"VaultAdapter", "substitute"},
     init : SUBSET FieldNames, env : SUBSET FieldNames,
     dotenv : SUBSET FieldNames, file_secret : SUBSET FieldNames]

\* vault_config = CoreasonVaultConfig(): ValidationError without VAULT_ADDR
VaultConfigOutcomes(src) ==
    IF src.vault_addr THEN {Returned("vault_config")}
    ELSE {Raised("ValidationError", "VAULT_ADDR")}

\* VaultAdapter(config=vault_config).  VaultAdapter.__init__(self) of
\* adapters.py takes no argument: the call raises TypeError
NewVaultAdapterOutcomes(src) ==
    IF src.adapter_class = "VaultAdapter"
    THEN {Raised("TypeError", "unexpected keyword argument 'config'")}
    ELSE {Returned("vault")}
         \cup (IF src.store_up THEN {} ELSE {Raised("Exception", m) : m \in ErrMsgs})

\* vault.get_secret(field_name, default=None)
FieldSecretOutcomes(src, field) ==
    {Returned(IF src.store[field] THEN ValueOf("vault", field) ELSE None)}
    \cup (IF src.store_up THEN {} ELSE {Raised("Exception", m) : m \in ErrMsgs})

\* a variant with `except ValidationError' alone
OnVaultError_ValidationOnly(out, next) ==
    CASE ~out.raised -> next
      [] out.raised /\ out.kind = "ValidationError" -> "merge"
      [] OTHER -> "failed"

\* try: ...  except (ValidationError, Exception): logger.warning(...)
\* return data
OnVaultError(out, next) == IF out.raised THEN "merge" ELSE next

VaultWarning(out) ==
    Log("WARNING", "Vault unreachable or error loading secrets: " \o out.msg
                   \o ". Falling back to Environment/Defaults.")

\* the sources after the secret store, in the order of
\* settings_customise_sources, and the built-in default
FromLaterSources(src, field) ==
    CASE field \in src.init -> ValueOf("init", field)
      [] field \notin src.init /\ field \in src.env -> ValueOf("env", field)
      [] field \notin src.init \cup src.env /\ field \in src.dotenv ->
            ValueOf("dotenv", field)
      [] field \notin src.init \cup src.env \cup src.dotenv
         /\ field \in src.file_secret -> ValueOf("file_secret", field)
      [] OTHER -> ValueOf("default", field)

\* the first source that holds the field wins: the dict returned by
\* VaultSettingsSource comes first
Resolve(vault_data, src, field) ==
    IF \E p \in vault_data : p[1] = field
    THEN (CHOOSE p \in vault_data : p[1] = field)[2]
    ELSE FromLaterSources(src, field)

ConfigInit ==
    /\ RunInit
    /\ TraceAtRest
    /\ OthersAtRest

\* what the construction of Settings leaves alone
not_config ==
    <<request, user_id, result, exc, background, response, mwvars, tracevars,
      publishvars, readyvars, cachevars>>

\* Settings() is called: VaultSettingsSource.__call__ starts with data = {}
ConstructSettings ==
    /\ pc = "idle"
    /\ \E src \in SettingsSources : sources' = src
    /\ pc' = "vault_config"
    /\ data' = {}
    /\ UNCHANGED <<settings, calls, logs>>
    /\ UNCHANGED not_config

\* vault_config = CoreasonVaultConfig()
LoadVaultConfig ==
    /\ pc = "vault_config"
    /\ \E out \in VaultConfigOutcomes(sources) :
       /\ calls' = Append(calls, Call("CoreasonVaultConfig", <<>>, out))
       /\ pc' = OnVaultError(out, "adapter")
       /\ logs' = IF out.raised THEN Append(logs, VaultWarning(out)) ELSE logs
    /\ UNCHANGED <<sources, data, settings>>
    /\ UNCHANGED not_config

\* vault = VaultAdapter(config=vault_config)
NewVaultAdapter ==
    /\ pc = "adapter"
    /\ \E out \in NewVaultAdapterOutcomes(sources) :
       /\ calls' = Append(calls, Call("VaultAdapter", "vault_config", out))
       /\ pc' = OnVaultError(out, "fetch")
       /\ logs' = IF out.raised THEN Append(logs, VaultWarning(out)) ELSE logs
    /\ UNCHANGED <<sources, data, settings>>
    /\ UNCHANGED not_config

\* the field the loop over model_fields has come to
NextField == SettingsFields[Cardinality(CallsOf("get_secret")) + 1]

\* one turn of the loop: secret_value = vault.get_secret(field_name, default=None)
\* if secret_value is not None: data[field_name] = secret_value
FetchSecret ==
    /\ pc = "fetch"
    /\ \E out \in FieldSecretOutcomes(sources, NextField) :
       /\ calls' = Append(calls, Call("get_secret",
                                      [key |-> NextField, default |-> None], out))
       /\ pc' = OnVaultError(out,
                   IF Cardinality(CallsOf("get_secret")) + 1 = Len(SettingsFields)
                   THEN "merge" ELSE "fetch")
       /\ data' = IF ~out.raised /\ out.ret # None
                  THEN SetItem(data, NextField, out.ret) ELSE data
       /\ logs' = IF out.raised THEN Append(logs, VaultWarning(out)) ELSE logs
    /\ UNCHANGED <<sources, settings>>
    /\ UNCHANGED not_config

\* the sources are merged in the order of settings_customise_sources
MergeSources ==
    /\ pc = "merge"
    /\ settings' = [f \in FieldNames |-> Resolve(data, sources, f)]
    /\ pc' = "built"
    /\ UNCHANGED <<sources, data, calls, logs>>
    /\ UNCHANGED not_config

ConfigNext ==
    \/ ConstructSettings
    \/ LoadVaultConfig
    \/ NewVaultAdapter
    \/ FetchSecret
    \/ MergeSources

ConfigSpec == ConfigInit /\ [][ConfigNext]_vars

\* the secrets fetched by the lookups that returned a value
FetchedSecrets ==
    {<<calls[i].args.key, calls[i].out.ret>> :
        i \in {j \in ReturnedCalls("get_secret") : calls[j].out.ret # None}}

\* a step of VaultSettingsSource raised
VaultSourceRaised == \E i \in DOMAIN calls : calls[i].out.raised

\* VaultSettingsSource.__call__ has returned
VaultSourceReturned == pc \in {"merge", "built"}

\* C22: the resolution of the settings never fails because of the secret
\* store: when the construction of the vault client or a lookup raises,
\* VaultSettingsSource logs exactly one warning and returns without
\* raising, with the values fetched before the failure, and the remaining
\* sources supply the other fields.
C22_VaultFailureFallsBack ==
    /\ pc # "failed"
    /\ VaultSourceReturned =>
          /\ data = FetchedSecrets
          /\ IF VaultSourceRaised
             THEN Len(logs) = 1 /\ logs[1][1] = "WARNING"
             ELSE logs = <<>>
    /\ pc = "built" =>
          \A f \in FieldNames :
              IF \E p \in FetchedSecrets : p[1] = f
              THEN <<f, settings[f]>> \in FetchedSecrets
              ELSE settings[f] = FromLaterSources(sources, f)

\* the first lookup returned a secret and the second raised
C22_Witness ==
    /\ pc = "built"
    /\ FetchedSecrets = {<<"SECRET_KEY", ValueOf("vault", "SECRET_KEY")>>}
    /\ RaisedCalls("get_secret") # {}
    /\ settings["SECRET_KEY"] = ValueOf("vault", "SECRET_KEY")
    /\ settings["DATABASE_URL"] = ValueOf("env", "DATABASE_URL")

\* the secret store can be reached under its configured address
StoreReachable == sources.store_up /\ sources.vault_addr

\* C23: for every field, when the secret store is reachable and holds a
\* value for it, the resolved value is the store's, whatever the other
\* sources supply; when the store has no value, the next source in the
\* order init, env, dotenv, file secret, default wins.
C23_SecretStoreHasPriority ==
    (pc = "built" /\ StoreReachable) =>
        \A f \in FieldNames :
            settings[f] = IF sources.store[f]
                          THEN ValueOf("vault", f)
                          ELSE FromLaterSources(sources, f)

----------------------------------------------------------------------------
\* get_settings: Settings() behind functools.lru_cache
\*
\* FastAPI runs a dependency that is a plain function in a pool of threads,
\* so the first requests may call get_settings at the same time.  The
\* wrapper of lru_cache looks the key up, calls the function on a miss and
\* stores the result afterwards; the lookup and the store are atomic, the
\* call of the function is not, and a result whose key was stored by
\* another thread in the meantime is returned as it is.

\* threads that call get_settings
MaxThreads == 3

\* calls of get_settings each thread makes
MaxCalls == 2

Threads == 1..MaxThreads

\* a thread outside get_settings that has not called it yet
NewThread == [pc |-> "ready", ncalls |-> 0, returned |-> {}]

CacheInit ==
    /\ RunInit
    /\ TraceAtRest
    /\ PublishAtRest
    /\ ReadyAtRest
    /\ ConfigAtRest
    /\ cache = {}
    /\ threads = [t \in Threads |-> NewThread]
    /\ objects = {}

\* what get_settings leaves alone
not_cache == <<runvars, tracevars, publishvars, readyvars, configvars>>

\* get_settings() finds the Settings object in the cache and returns it
CacheHit(t) ==
    /\ threads[t].pc = "ready"
    /\ threads[t].ncalls < MaxCalls
    /\ cache # {}
    /\ threads' = [threads EXCEPT ![t] =
                      [@ EXCEPT !.ncalls = @ + 1, !.returned = @ \cup cache]]
    /\ UNCHANGED <<cache, objects>>
    /\ UNCHANGED not_cache

\* get_settings() finds the cache empty: the wrapper calls Settings()
CacheMiss(t) ==
    /\ threads[t].pc = "ready"
    /\ threads[t].ncalls < MaxCalls
    /\ cache = {}
    /\ threads' = [threads EXCEPT ![t].pc = "constructing"]
    /\ UNCHANGED <<cache, objects>>
    /\ UNCHANGED not_cache

\* Settings() returns a new object; the wrapper stores it unless the key
\* was stored during the call, and returns it in either case
StoreResult(t) ==
    /\ threads[t].pc = "constructing"
    /\ LET obj == Cardinality(objects) + 1 IN
       /\ objects' = objects \cup {obj}
       /\ cache' = IF cache = {} THEN {obj} ELSE cache
       /\ threads' = [threads EXCEPT ![t] =
                         [@ EXCEPT !.pc = "ready", !.ncalls = @ + 1,
                                   !.returned = @ \cup {obj}]]
    /\ UNCHANGED not_cache

CacheNext ==
    \E t \in Threads :
        \/ CacheHit(t)
        \/ CacheMiss(t)
        \/ StoreResult(t)

CacheSpec == CacheInit /\ [][CacheNext]_vars

\* the references the calls of get_settings have returned
ReturnedSettings == UNION {threads[t].returned : t \in Threads}

\* C21: for any sequence and interleaving of calls of get_settings,
\* concurrent first access from several threads included, the Settings
\* object is constructed at most once and every call returns the identical
\* object.
C21_SettingsIsSingleton ==
    /\ Cardinality(objects) <= 1
    /\ Cardinality(ReturnedSettings) <= 1

====
